---------------------------- MODULE Spec2Model ----------------------------
(***************************************************************************)
(* Model of the Raycast extension "today's temperature": the Command       *)
(* component (IP geolocation through useFetch), the WeatherDisplay         *)
(* component (forecast fetch in a useEffect keyed on apiUrl, single-slot   *)
(* LocalStorage fallback, render branches) and the chart axis rule.        *)
(*                                                                         *)
(* React state updates made in one synchronous stretch of fetchData are    *)
(* committed together (automatic batching); a render is a separate step.   *)
(* LocalStorage calls are requests to the host, served in the order they   *)
(* were issued; the awaiting run resumes in a later step.  The command     *)
(* process ends when the user relaunches the command: its runs stop, the   *)
(* storage requests already issued are still served.                       *)
(***************************************************************************)
EXTENDS Integers, Sequences, FiniteSets, TLC

\* ---------------------------------------------------------------- bounds
\* report generations (launches of the command)
MaxGens == 2
\* invocations of fetchData (forecast requests) over all generations
MaxRuns == 3
\* distinct locations the geolocation service may answer
NumLocs == 2
\* length of a temperature series handed to the axis rule
MaxSamples == 2

Locs == 1..NumLocs
\* body shapes of a 2xx forecast response: the hourly series, or an object
\* without the 'hourly' field (the current-conditions shape of part_001)
Shapes == {"hourly", "current"}

\* JS null / undefined / a missing LocalStorage item
Null == <<>>

VARIABLES
    gen,         \* number of the running report generation
    clock,       \* the minute the last render read from the wall clock
    locLoading,  \* useFetch(ipwho.is).isLoading
    locError,    \* useFetch(ipwho.is).error is set
    locData,     \* useFetch(ipwho.is).data : Null or [loc, success]
    weather,     \* useState weather : Null or the decoded body
    weatherFrom, \* which setWeather wrote it: "none", "fetch" (l.64), "cache" (l.72)
    isStale,     \* useState isStale
    isLoading,   \* useState isLoading
    error,       \* useState error is non-null
    dirty,       \* a state update is waiting for its render
    depUrl,      \* the apiUrl the effect last ran for (Null before the first render)
    view,        \* what is on screen (the last committed render)
    runs,        \* the invocations of fetchData, in start order
    storageQ,    \* LocalStorage requests issued and not yet served
    cache,       \* LocalStorage item "cachedWeatherData" (Null when absent)
    lastOk,      \* history: body of the most recently completed successful fetch
    samples,     \* axis rule: data.hourly.temperature_2m, in tenths of a degree
    yAxis,       \* axis rule: <<yAxisMin, yAxisMax>> once computed
    axisPc       \* axis rule: "idle", "in" before, "out" after the computation

vars == <<gen, clock, locLoading, locError, locData, weather, weatherFrom,
          isStale, isLoading, error, dirty, depUrl, view, runs, storageQ,
          cache, lastOk, samples, yAxis, axisPc>>

locVars == <<locLoading, locError, locData>>
wdVars == <<weather, weatherFrom, isStale, isLoading, error>>
axisVars == <<samples, yAxis, axisPc>>

\* ------------------------------------------------------------ JSON bodies
\* The body answered to request number n for location loc.  'latitude'
\* stands for latitude, longitude and timezone; the series (or the current
\* reading) is identified by the request it answers.
Response(loc, n, shape) ==
    IF shape = "hourly"
    THEN [latitude |-> loc, hourly |-> n]
    ELSE [latitude |-> loc, current |-> n]

KeyOrder == <<"latitude", "hourly", "current">>

RECURSIVE StringifyFrom(_, _)
StringifyFrom(d, i) ==
    IF i > Len(KeyOrder) THEN <<>>
    ELSE IF KeyOrder[i] \in DOMAIN d
         THEN <<<<KeyOrder[i], d[KeyOrder[i]]>>>> \o StringifyFrom(d, i + 1)
         ELSE StringifyFrom(d, i + 1)

\* JSON.stringify(data): the text, as the list of its key/value members
Stringify(d) == StringifyFrom(d, 1)

\* JSON.parse(text): the object with the members of the text
Parse(s) ==
    [k \in {s[i][1] : i \in DOMAIN s} |->
        s[CHOOSE i \in DOMAIN s : s[i][1] = k][2]]

\* !weather.hourly is false
HasHourly(d) == "hourly" \in DOMAIN d

\* the request a body answers
ReqOf(d) == IF HasHourly(d) THEN d.hourly ELSE d.current

\* ------------------------------------------------------------- Command
LocLoadingPanel == [kind |-> "locLoading", forecast |-> Null, stale |-> FALSE,
                    from |-> "none", city |-> 0]
LocErrorPanel == [kind |-> "locError", forecast |-> Null, stale |-> FALSE,
                  from |-> "none", city |-> 0]

\* Command's branches: which element it returns
CommandViewNoSuccessCheck(loading, err, data) ==
    IF loading THEN "locLoading"
    ELSE IF err \/ data = Null THEN "locError"
    ELSE "weather"

CommandView(loading, err, data) ==
    IF loading THEN "locLoading"
    ELSE IF err \/ data = Null \/ ~data.success THEN "locError"
    ELSE "weather"

\* WeatherDisplay is mounted
Mounted == CommandView(locLoading, locError, locData) = "weather"

\* the props city/country/latitude/longitude/timezoneId
City == locData.loc

\* ------------------------------------------------------ WeatherDisplay
\* apiUrl: coordinates and timezone of the props, today's date and the
\* current local minute
ApiUrl(loc, minute) == <<loc, minute>>

\* the element WeatherDisplay returns
ViewOf(w, stale, loading, err, from, city) ==
    IF loading /\ w = Null
    THEN [kind |-> "loading", forecast |-> Null, stale |-> FALSE,
          from |-> "none", city |-> city]
    ELSE IF err /\ w = Null
    THEN [kind |-> "error", forecast |-> Null, stale |-> FALSE,
          from |-> "none", city |-> city]
    ELSE IF w = Null \/ ~HasHourly(w)
    THEN [kind |-> "loading", forecast |-> Null, stale |-> FALSE,
          from |-> "none", city |-> city]
    ELSE [kind |-> "report", forecast |-> w, stale |-> stale,
          from |-> from, city |-> city]

NewRun(url) ==
    [gen |-> gen, url |-> url, pc |-> "fetch", cached |-> Null]

\* runs of the running generation
Live(i) == runs[i].gen = gen

ReportInit ==
    /\ gen = 1
    /\ clock = 0
    /\ locLoading = TRUE
    /\ locError = FALSE
    /\ locData = Null
    /\ weather = Null
    /\ weatherFrom = "none"
    /\ isStale = FALSE
    /\ isLoading = TRUE
    /\ error = FALSE
    /\ dirty = FALSE
    /\ depUrl = Null
    /\ view = LocLoadingPanel
    /\ runs = <<>>
    /\ storageQ = <<>>
    /\ cache = Null
    /\ lastOk = Null

Init ==
    /\ ReportInit
    /\ samples = <<>>
    /\ yAxis = <<0, 0>>
    /\ axisPc = "idle"

\* useFetch("https://ipwho.is/") settles; Command renders again
LocSettle(err, data) ==
    /\ locLoading
    /\ locLoading' = FALSE
    /\ locError' = err
    /\ locData' = data
    /\ IF CommandView(FALSE, err, data) = "weather"
       THEN /\ dirty' = TRUE
            /\ view' = view
       ELSE /\ dirty' = FALSE
            /\ view' = LocErrorPanel
    /\ UNCHANGED <<gen, clock, wdVars, depUrl, runs, storageQ, cache, lastOk,
                   axisVars>>

LocResolveOk ==
    /\ Len(runs) < MaxRuns
    /\ \E l \in Locs : LocSettle(FALSE, [loc |-> l, success |-> TRUE])
LocTransportError == LocSettle(TRUE, Null)
LocSemanticFail == LocSettle(FALSE, [loc |-> 0, success |-> FALSE])

\* WeatherDisplay renders at minute 'now' of the wall clock (new Date(): the
\* minute of the last reading or a later one); the effect runs fetchData
\* when apiUrl is new
Render(now) ==
    /\ Mounted
    /\ dirty
    /\ now \in {clock, clock + 1}
    /\ ApiUrl(City, now) # depUrl => Len(runs) < MaxRuns
    /\ clock' = now
    /\ view' = ViewOf(weather, isStale, isLoading, error, weatherFrom, City)
    /\ LET url == ApiUrl(City, now) IN
       IF depUrl # url
       THEN /\ depUrl' = url
            /\ runs' = Append(runs, NewRun(url))
            /\ isLoading' = TRUE
            /\ dirty' = ~isLoading
       ELSE /\ dirty' = FALSE
            /\ UNCHANGED <<depUrl, runs, isLoading>>
    /\ UNCHANGED <<gen, locVars, weather, weatherFrom, isStale, error,
                   storageQ, cache, lastOk, axisVars>>

\* fetch resolves with a 2xx response whose body decodes (lines 59-65)
FetchOk(i, shape) ==
    /\ i \in DOMAIN runs
    /\ Live(i)
    /\ runs[i].pc = "fetch"
    /\ LET data == Response(runs[i].url[1], i, shape) IN
       /\ weather' = data
       /\ weatherFrom' = "fetch"
       /\ storageQ' = Append(storageQ,
              [op |-> "setItem", run |-> i, text |-> Stringify(data)])
       /\ lastOk' = data
    /\ dirty' = TRUE
    /\ runs' = [runs EXCEPT ![i].pc = "awaitSet", ![i].url = Null]
    /\ UNCHANGED <<gen, clock, locVars, isStale, isLoading, error, depUrl,
                   view, cache, axisVars>>

\* fetch rejects, the status is not 2xx, or the body does not decode
\* (lines 59-63, 68-70)
FetchFail(i) ==
    /\ i \in DOMAIN runs
    /\ Live(i)
    /\ runs[i].pc = "fetch"
    /\ error' = TRUE
    /\ storageQ' = Append(storageQ, [op |-> "getItem", run |-> i, text |-> Null])
    /\ dirty' = TRUE
    /\ runs' = [runs EXCEPT ![i].pc = "awaitGet", ![i].url = Null]
    /\ UNCHANGED <<gen, clock, locVars, weather, weatherFrom, isStale,
                   isLoading, depUrl, view, cache, lastOk, axisVars>>

\* the slot after the host served a request
CacheAfterWriteOnce(req, c) ==
    IF req.op = "setItem" /\ c = Null THEN req.text ELSE c

CacheAfter(req, c) ==
    IF req.op = "setItem" THEN req.text ELSE c

\* the host serves the oldest LocalStorage request
HostServe ==
    /\ storageQ # <<>>
    /\ LET req == Head(storageQ) IN
       /\ cache' = CacheAfter(req, cache)
       /\ runs' = IF runs[req.run].gen # gen THEN runs
                  ELSE IF req.op = "setItem"
                  THEN [runs EXCEPT ![req.run].pc = "setDone"]
                  ELSE [runs EXCEPT ![req.run].pc = "getDone",
                                    ![req.run].cached = cache]
    /\ storageQ' = Tail(storageQ)
    /\ UNCHANGED <<gen, clock, locVars, wdVars, dirty, depUrl, view, lastOk,
                   axisVars>>

\* fetchData resumes after LocalStorage.setItem (lines 66-67, 76)
ResumeOk(i) ==
    /\ i \in DOMAIN runs
    /\ Live(i)
    /\ runs[i].pc = "setDone"
    /\ isStale' = FALSE
    /\ error' = FALSE
    /\ isLoading' = FALSE
    /\ dirty' = (dirty \/ isStale \/ error \/ isLoading)
    /\ runs' = [runs EXCEPT ![i].pc = "done"]
    /\ UNCHANGED <<gen, clock, locVars, weather, weatherFrom, depUrl, view,
                   storageQ, cache, lastOk, axisVars>>

\* fetchData resumes after LocalStorage.getItem (lines 71-76)
ResumeFail(i) ==
    /\ i \in DOMAIN runs
    /\ Live(i)
    /\ runs[i].pc = "getDone"
    /\ IF runs[i].cached # Null
       THEN /\ weather' = Parse(runs[i].cached)
            /\ weatherFrom' = "cache"
            /\ isStale' = TRUE
            /\ dirty' = TRUE
       ELSE /\ dirty' = (dirty \/ isLoading)
            /\ UNCHANGED <<weather, weatherFrom, isStale>>
    /\ isLoading' = FALSE
    /\ runs' = [runs EXCEPT ![i].pc = "done", ![i].cached = Null]
    /\ UNCHANGED <<gen, clock, locVars, error, depUrl, view, storageQ, cache,
                   lastOk, axisVars>>

\* the user launches the command again: a new process, new components
NewGeneration ==
    /\ gen < MaxGens
    /\ gen' = gen + 1
    /\ locLoading' = TRUE
    /\ locError' = FALSE
    /\ locData' = Null
    /\ weather' = Null
    /\ weatherFrom' = "none"
    /\ isStale' = FALSE
    /\ isLoading' = TRUE
    /\ error' = FALSE
    /\ dirty' = FALSE
    /\ depUrl' = Null
    /\ view' = LocLoadingPanel
    /\ runs' = [i \in DOMAIN runs |->
                  [gen |-> runs[i].gen, url |-> Null, pc |-> "dead",
                   cached |-> Null]]
    /\ UNCHANGED <<clock, storageQ, cache, lastOk, axisVars>>

Next ==
    \/ LocResolveOk
    \/ LocTransportError
    \/ LocSemanticFail
    \/ \E now \in 0..MaxRuns : Render(now)
    \/ \E i \in DOMAIN runs, s \in Shapes : FetchOk(i, s)
    \/ \E i \in DOMAIN runs : FetchFail(i)
    \/ HostServe
    \/ \E i \in DOMAIN runs : ResumeOk(i)
    \/ \E i \in DOMAIN runs : ResumeFail(i)
    \/ NewGeneration

Spec == Init /\ [][Next]_vars

\* ------------------------------------------------------- chart axis rule
\* Temperatures are in tenths of a degree (the service answers one decimal).
\* Math.floor and Math.ceil of x/10, as whole degrees
MathFloor(x) == x \div 10
MathCeil(x) == -((-x) \div 10)

\* Math.min(...a) and Math.max(...a) of a non-empty array
RECURSIVE MathMin(_)
MathMin(a) ==
    IF Len(a) = 1 THEN a[1]
    ELSE LET m == MathMin(Tail(a)) IN IF a[1] < m THEN a[1] ELSE m

RECURSIVE MathMax(_)
MathMax(a) ==
    IF Len(a) = 1 THEN a[1]
    ELSE LET m == MathMax(Tail(a)) IN IF a[1] > m THEN a[1] ELSE m

\* yAxisMin, yAxisMax in whole degrees; of an empty array Math.min is
\* Infinity and Math.max is -Infinity, so neither comparison holds
yAxisMin(a) ==
    IF a = <<>> THEN 0
    ELSE IF MathMin(a) < 0 THEN MathFloor(MathMin(a)) ELSE 0

yAxisMaxInclusive(a) ==
    IF a = <<>> THEN 40
    ELSE IF MathMax(a) >= 400 THEN MathCeil(MathMax(a)) + 2 ELSE 40

yAxisMax(a) ==
    IF a = <<>> THEN 40
    ELSE IF MathMax(a) > 400 THEN MathCeil(MathMax(a)) + 2 ELSE 40

\* sample temperatures, in tenths of a degree
Temps == {-25, -20, -5, 0, 5, 100, 250, 400, 401, 410}

Series == UNION {[1..n -> Temps] : n \in 0..MaxSamples}

AxisInit ==
    /\ ReportInit
    /\ samples \in Series
    /\ yAxis = <<0, 0>>
    /\ axisPc = "in"

\* WeatherDisplay computes the axis bounds of the chart (lines 103-106)
ComputeAxis ==
    /\ axisPc = "in"
    /\ yAxis' = <<yAxisMin(samples), yAxisMax(samples)>>
    /\ axisPc' = "out"
    /\ UNCHANGED <<gen, clock, locVars, wdVars, dirty, depUrl, view, runs,
                   storageQ, cache, lastOk, samples>>

AxisNext == ComputeAxis

AxisSpec == AxisInit /\ [][AxisNext]_vars

\* the scheduling the runtime guarantees: a pending render is committed, a
\* request gets its answer or its failure, the host serves the storage
\* queue, a resumed run continues.  Nothing makes the user relaunch the
\* command.
Fairness ==
    /\ WF_vars(LocResolveOk \/ LocTransportError \/ LocSemanticFail)
    /\ WF_vars(\E now \in 0..MaxRuns : Render(now))
    /\ WF_vars(\E i \in DOMAIN runs : FetchFail(i) \/ \E s \in Shapes : FetchOk(i, s))
    /\ WF_vars(HostServe)
    /\ WF_vars(\E i \in DOMAIN runs : ResumeOk(i))
    /\ WF_vars(\E i \in DOMAIN runs : ResumeFail(i))

FairSpec == Spec /\ Fairness

\* ------------------------------------------------------------ properties
LiveRuns == {i \in DOMAIN runs : Live(i)}

\* C1: when a run whose fetch failed resumes with a non-empty item read from
\* the cache slot, what WeatherDisplay then returns is the report, with the
\* stale banner, of the forecast that was read from the slot.
C1_StaleFallbackShown ==
    [][\A i \in DOMAIN runs :
         (i \in DOMAIN runs' /\ runs[i].pc = "getDone" /\ runs'[i].pc = "done"
            /\ runs[i].cached # Null)
         => LET v == ViewOf(weather', isStale', isLoading', error',
                            weatherFrom', City) IN
            /\ v.kind = "report"
            /\ v.stale
            /\ v.forecast = Parse(runs[i].cached)]_vars

\* a run of the generation on screen failed and read an empty cache slot
FailedOnEmptyCache ==
    \E i \in LiveRuns : runs[i].pc = "getDone" /\ runs[i].cached = Null

\* C2: a run of the generation on screen whose fetch failed and that read an
\* empty cache slot leads to the error panel being on screen (unless the
\* user relaunches the command first).
C2_ReachesErrorPanel ==
    \A g \in 1..MaxGens :
        (gen = g /\ FailedOnEmptyCache) ~> (gen # g \/ view.kind = "error")

\* C3: a displayed report carries the stale banner exactly when its forecast
\* was substituted from the cache, and never when it is the response of a
\* fetch.
C3_LiveXorStale ==
    view.kind = "report" => (view.stale <=> view.from = "cache")

\* the forecast requests awaiting their response
InFlight == {i \in LiveRuns : runs[i].pc = "fetch"}

\* C4: at most one forecast request is in flight, and neither the cache slot
\* nor the weather state ever goes from the response of a newer request to
\* the response of an older one.
C4_NoOlderOverNewer ==
    /\ [](Cardinality(InFlight) <= 1)
    /\ [][/\ (cache # Null /\ cache' # Null)
             => ReqOf(Parse(cache')) >= ReqOf(Parse(cache))
          /\ (weather # Null /\ weather' # Null /\ weatherFrom' = "fetch"
                /\ gen' = gen)
             => ReqOf(weather') >= ReqOf(weather)]_vars

PendingWrites == {k \in DOMAIN storageQ : storageQ[k].op = "setItem"}

\* what a getItem issued now will be answered: the text of the last write
\* issued, or the slot when no write is pending
SlotAsRead ==
    IF PendingWrites = {} THEN cache
    ELSE storageQ[CHOOSE k \in PendingWrites :
                      \A j \in PendingWrites : j <= k].text

LocationFailed == ~locLoading /\ (locError \/ locData = Null \/ ~locData.success)

\* C6: when location resolution failed, by transport error or by a response
\* with success = false, the same location-error panel is on screen, this
\* generation has started no forecast request and issued no cache request,
\* and it stays so until the command is launched again.
C6_LocationFailureTerminal ==
    /\ [](LocationFailed =>
            /\ view = LocErrorPanel
            /\ ~dirty
            /\ LiveRuns = {}
            /\ \A k \in DOMAIN storageQ : ~Live(storageQ[k].run))
    /\ [][LocationFailed /\ gen' = gen
            => LocationFailed' /\ view' = view /\ runs' = runs
               /\ \A k \in DOMAIN storageQ' : ~Live(storageQ'[k].run)]_vars

C6_Witness ==
    /\ ~locLoading /\ ~locError /\ locData # Null /\ ~locData.success
    /\ view = LocErrorPanel
    /\ cache # Null

\* C7: a 2xx body without the hourly field is never stored in the cache slot
\* and never kept as the weather state.
C7_NoHourlyRejected ==
    /\ (cache # Null => HasHourly(Parse(cache)))
    /\ (weather # Null => HasHourly(weather))

\* C8: one report generation starts at most one forecast request.
C8_OneRequestPerGeneration == Cardinality(LiveRuns) <= 1

\* C10: the forecast of a displayed report was fetched for the location
\* named in the report's header.
C10_ForecastMatchesHeader ==
    view.kind = "report" => view.forecast.latitude = view.city

\* the least and the greatest sample of a non-empty series
Least(a) == CHOOSE m \in {a[i] : i \in DOMAIN a} : \A i \in DOMAIN a : m <= a[i]
Greatest(a) == CHOOSE m \in {a[i] : i \in DOMAIN a} : \A i \in DOMAIN a : m >= a[i]
\* the whole degree at or below / at or above x tenths
DegreeBelow(x) == CHOOSE k \in -100..100 : 10 * k <= x /\ x < 10 * (k + 1)
DegreeAbove(x) == CHOOSE k \in -100..100 : 10 * (k - 1) < x /\ x <= 10 * k

\* C9: for a non-empty series the lower axis bound is the floor of the least
\* sample when that is below 0 and 0 otherwise, the upper bound is the
\* ceiling of the greatest sample plus 2 when that is above 40 and 40
\* otherwise; a series from -2.0 to 41.0 gives (-2, 43), one from 10.0 to
\* 25.0 gives (0, 40), and samples of exactly 0 or exactly 40 widen nothing.
C9_AxisBounds ==
    (axisPc = "out" /\ samples # <<>>) =>
        LET lo == Least(samples)
            hi == Greatest(samples) IN
        /\ yAxis[1] = IF lo < 0 THEN DegreeBelow(lo) ELSE 0
        /\ yAxis[2] = IF hi > 400 THEN DegreeAbove(hi) + 2 ELSE 40
        /\ (lo = -20 /\ hi = 410) => yAxis = <<-2, 43>>
        /\ (lo = 100 /\ hi = 250) => yAxis = <<0, 40>>
        /\ lo = 0 => yAxis[1] = 0
        /\ hi = 400 => yAxis[2] = 40

C9_Witness ==
    /\ axisPc = "out"
    /\ samples = <<401, -25>>
    /\ yAxis = <<-3, 43>>

=============================================================================
